---- MODULE Spec2Model ----
(***************************************************************************)
(* A model of the `generate` command of actor-spec (src/cli/commands.ts):   *)
(* the config module is loaded with require(), its default export is        *)
(* type-checked, resolved (a factory is invoked and awaited), checked for   *)
(* actorspecVersion, serialised with JSON.stringify(_, null, 2) and written *)
(* to actorspec.json in the resolved output directory.                      *)
(*                                                                         *)
(* JavaScript values are records tagged by `t`; paths are records           *)
(* [abs, segs]; a text (the file content) is a sequence of JSON tokens; the *)
(* filesystem maps absolute paths to entries.                               *)
(***************************************************************************)
EXTENDS Integers, Sequences, FiniteSets, TLC

\* Largest finite number a config holds (numbers range over 0..MaxNum).
MaxNum == 1

(***************************************************************************)
(* JavaScript values                                                       *)
(***************************************************************************)
Undefined == [t |-> "undefined"]
Null == [t |-> "null"]
Num(n) == [t |-> "number", fin |-> TRUE, n |-> n]
\* The non-finite numbers: n = 1 is Infinity, n = 0 is NaN.
Infinity == [t |-> "number", fin |-> FALSE, n |-> 1]
NaN == [t |-> "number", fin |-> FALSE, n |-> 0]
Str(s) == [t |-> "string", s |-> s]
\* A plain object: its own properties, <<key, value>> in insertion order.
Obj(props) == [t |-> "object", props |-> props]
\* An array: its elements, and the non-index properties set on it.
Arr(elems, props) == [t |-> "array", elems |-> elems, props |-> props]
\* A zero-argument factory: `async` says it returns a promise, `throws` that
\* the call throws (or the promise rejects) instead of yielding `ret`.
Fn(async, throws, ret) ==
    [t |-> "function", async |-> async, throws |-> throws, ret |-> ret]

\* The typeof operator.
TypeOf(v) ==
    CASE v.t = "undefined" -> "undefined"
      [] v.t = "null" -> "object"
      [] v.t = "number" -> "number"
      [] v.t = "string" -> "string"
      [] v.t = "object" -> "object"
      [] v.t = "array" -> "object"
      [] v.t = "function" -> "function"

\* ToBoolean: what `!v` and `v ? a : b` test.
Truthy(v) ==
    CASE v.t = "undefined" -> FALSE
      [] v.t = "null" -> FALSE
      [] v.t = "number" -> IF v.fin THEN v.n # 0 ELSE v.n = 1
      [] v.t = "string" -> v.s # ""
      [] OTHER -> TRUE

\* v.key for an object-like v: the value of the own property, else undefined.
GetProp(v, key) ==
    IF v.t \in {"object", "array"} /\ \E i \in 1..Len(v.props) : v.props[i][1] = key
    THEN LET i == CHOOSE j \in 1..Len(v.props) : v.props[j][1] = key
         IN  v.props[i][2]
    ELSE Undefined

(***************************************************************************)
(* JSON.stringify(value, null, 2), as a sequence of tokens                 *)
(***************************************************************************)
Nl == "\n"
Gap == "  "
Quote(s) == "\"" \o s \o "\""
Indent(d) == [i \in 1..d |-> Gap]

RECURSIVE Join(_, _)
Join(parts, sep) ==
    IF parts = <<>> THEN <<>>
    ELSE IF Len(parts) = 1 THEN parts[1]
    ELSE parts[1] \o sep \o Join(Tail(parts), sep)

\* undefined and functions have no JSON form.
Serializable(v) == v.t \notin {"undefined", "function"}

RECURSIVE SerializeJSONProperty(_, _)
RECURSIVE SerializeMembers(_, _)
RECURSIVE SerializeElements(_, _)

\* One `"key": value` part per property whose value has a JSON form.
SerializeMembers(props, d) ==
    IF props = <<>> THEN <<>>
    ELSE LET p == Head(props)
             rest == SerializeMembers(Tail(props), d)
         IN  IF Serializable(p[2])
             THEN << <<Quote(p[1]), ":", " ">> \o SerializeJSONProperty(p[2], d) >> \o rest
             ELSE rest

\* One part per element; an element without a JSON form becomes null.
SerializeElements(elems, d) ==
    IF elems = <<>> THEN <<>>
    ELSE LET e == Head(elems)
         IN  << IF Serializable(e) THEN SerializeJSONProperty(e, d) ELSE <<"null">> >>
             \o SerializeElements(Tail(elems), d)

\* The tokens of v at nesting depth d (d indent units are in force).
SerializeJSONProperty(v, d) ==
    CASE v.t = "null" -> <<"null">>
      [] v.t = "number" -> IF v.fin THEN <<ToString(v.n)>> ELSE <<"null">>
      [] v.t = "string" -> <<Quote(v.s)>>
      [] v.t = "object" ->
            LET partial == SerializeMembers(v.props, d + 1)
            IN  IF partial = <<>> THEN <<"{", "}">>
                ELSE <<"{", Nl>> \o Indent(d + 1)
                     \o Join(partial, <<",", Nl>> \o Indent(d + 1))
                     \o <<Nl>> \o Indent(d) \o <<"}">>
      [] v.t = "array" ->
            LET partial == SerializeElements(v.elems, d + 1)
            IN  IF partial = <<>> THEN <<"[", "]">>
                ELSE <<"[", Nl>> \o Indent(d + 1)
                     \o Join(partial, <<",", Nl>> \o Indent(d + 1))
                     \o <<Nl>> \o Indent(d) \o <<"]">>

\* The white space JSON.stringify puts between tokens when it indents.
Whitespace == {Nl, Gap, " "}

\* JSON.stringify(value): the indentation arguments left out.
JSONStringifyCompact(v) ==
    SelectSeq(SerializeJSONProperty(v, 0), LAMBDA tok : tok \notin Whitespace)

\* Line 58: JSON.stringify(resolvedConfig, null, 2)
JSONStringify(v) == SerializeJSONProperty(v, 0)

(***************************************************************************)
(* Paths (Node's path module, POSIX)                                       *)
(***************************************************************************)
Rel(segs) == [abs |-> FALSE, segs |-> segs]
Abs(segs) == [abs |-> TRUE, segs |-> segs]

\* Normalisation of a segment list from the root: "." and "" are dropped,
\* ".." removes the segment before it (and nothing at the root).
RECURSIVE NormalizeSegs(_, _)
NormalizeSegs(segs, acc) ==
    IF segs = <<>> THEN acc
    ELSE LET s == Head(segs)
         IN  CASE s \in {".", ""} -> NormalizeSegs(Tail(segs), acc)
               [] s = ".." ->
                    NormalizeSegs(Tail(segs),
                                  IF acc = <<>> THEN acc ELSE SubSeq(acc, 1, Len(acc) - 1))
               [] OTHER -> NormalizeSegs(Tail(segs), Append(acc, s))

\* path.resolve(from, to) for an absolute `from`.
PathResolve(from, to) ==
    IF to.abs THEN Abs(NormalizeSegs(to.segs, <<>>))
    ELSE Abs(NormalizeSegs(from.segs \o to.segs, <<>>))

\* Length of the longest common prefix of two segment lists.
RECURSIVE CommonPrefix(_, _)
CommonPrefix(a, b) ==
    IF a = <<>> \/ b = <<>> \/ Head(a) # Head(b) THEN 0
    ELSE 1 + CommonPrefix(Tail(a), Tail(b))

\* path.relative(from, to) for absolute, normalised paths.
PathRelative(from, to) ==
    LET k == CommonPrefix(from.segs, to.segs)
    IN  Rel([i \in 1..(Len(from.segs) - k) |-> ".."] \o SubSeq(to.segs, k + 1, Len(to.segs)))

\* module.path: the directory of the compiled commands.js.
ModulePath == Abs(<<"app", "cli">>)

(***************************************************************************)
(* The filesystem: absolute segment lists to entries                       *)
(***************************************************************************)
NoEntry == [k |-> "none"]
Dir == [k |-> "dir"]
File(data) == [k |-> "file", data |-> data]

Parent(segs) == SubSeq(segs, 1, Len(segs) - 1)

\* fs.existsSync(p)
ExistsSync(f, p) == f[p.segs].k # "none"

\* fsp.mkdir(p) without { recursive: true }: the parent must exist and p must not.
MkdirPlain(f, p) ==
    CASE f[p.segs].k # "none" -> [err |-> "EEXIST", fs |-> f]
      [] f[Parent(p.segs)].k # "dir" -> [err |-> "ENOENT", fs |-> f]
      [] OTHER -> [err |-> "none", fs |-> [f EXCEPT ![p.segs] = Dir]]

\* fsp.mkdir(p, { recursive: true }): every missing directory on the way to
\* p is created; a file on the way fails with ENOTDIR, a file at p with EEXIST.
RECURSIVE MkdirFrom(_, _, _)
MkdirFrom(f, segs, i) ==
    IF i > Len(segs) THEN [err |-> "none", fs |-> f]
    ELSE LET q == SubSeq(segs, 1, i)
         IN  CASE f[q].k = "file" ->
                    [err |-> IF i < Len(segs) THEN "ENOTDIR" ELSE "EEXIST", fs |-> f]
               [] f[q].k = "dir" -> MkdirFrom(f, segs, i + 1)
               [] OTHER -> MkdirFrom([f EXCEPT ![q] = Dir], segs, i + 1)

MkdirRecursive(f, p) == MkdirFrom(f, p.segs, 1)

\* The open(p, 'w') that starts fsp.writeFile: O_WRONLY | O_CREAT | O_TRUNC.
\* The file exists and is empty afterwards.
OpenTruncate(f, p) ==
    CASE f[p.segs].k = "dir" -> [err |-> "EISDIR", fs |-> f]
      [] f[Parent(p.segs)].k = "none" -> [err |-> "ENOENT", fs |-> f]
      [] f[Parent(p.segs)].k = "file" -> [err |-> "ENOTDIR", fs |-> f]
      [] OTHER -> [err |-> "none", fs |-> [f EXCEPT ![p.segs] = File(<<>>)]]

\* One write(2) of the loop of fsp.writeFile: the chunk lands behind what the
\* file holds.
WriteAppend(f, p, chunk) ==
    [f EXCEPT ![p.segs] = File(f[p.segs].data \o chunk)]

(***************************************************************************)
(* The inputs of a run                                                     *)
(***************************************************************************)
Cwds == {Abs(<<"app">>), Abs(<<"home">>)}

\* The `config` argument.
Configs == {Rel(<<"actorspec.js">>)}

\* The `outDir` argument: left out, or a string ("" is Rel(<<>>)).
NoOutDir == [given |-> FALSE, path |-> Rel(<<>>)]
OutDir(p) == [given |-> TRUE, path |-> p]
OutDirs ==
    {NoOutDir} \cup
    {OutDir(Rel(s)) : s \in {<<>>, <<".">>, <<"out">>, <<"out", "sub">>, <<".actor">>}}

\* The values of actorspecVersion, and the property lists built from them.
VersionValues == {Undefined, Null, Infinity, NaN} \cup {Num(n) : n \in 0..MaxNum}
VersionProps == {<<>>} \cup {<< <<"actorspecVersion", v>> >> : v \in VersionValues}
ActorProps ==
    { <<>>,
      << <<"actor", Obj(<< <<"title", Str("Demo")>> >>)>> >>,
      << <<"actor", Undefined>> >> }
Objects == {Obj(v \o a) : v \in VersionProps, a \in ActorProps}
Arrays ==
    {Arr(e, v) : e \in {<<>>, <<Num(1)>>},
                 v \in {<<>>, << <<"actorspecVersion", Num(1)>> >>}}
Primitives == {Undefined, Null, Str(""), Str("abc")} \cup {Num(n) : n \in 0..MaxNum}
\* What a factory yields.
FactoryResults ==
    { Obj(<< <<"actorspecVersion", Num(1)>> >>),
      Obj(<< <<"actorspecVersion", Num(1)>>,
             <<"actor", Obj(<< <<"title", Str("Demo")>> >>)>> >>),
      Obj(<< <<"actorspecVersion", Num(0)>> >>),
      Obj(<<>>),
      Null }
Factories ==
    {Fn(a, FALSE, r) : a \in BOOLEAN, r \in FactoryResults}
    \cup {Fn(a, TRUE, Undefined) : a \in BOOLEAN}
\* The default export of a config module.
DefaultExports == Objects \cup Arrays \cup Primitives \cup Factories

\* The config module on disk: missing, throwing while it loads, or loading
\* with a default export.
Modules ==
    {[load |-> l, default |-> Undefined] : l \in {"missing", "throws"}}
    \cup {[load |-> "ok", default |-> v] : v \in DefaultExports}

\* The directories an output can go to under cwd c, and the paths of the
\* filesystem: those, their actorspec.json, the config file, and all parents.
OutputDirs(c) ==
    {c.segs, c.segs \o <<".actor">>, c.segs \o <<"out">>, c.segs \o <<"out", "sub">>}
FsPaths(c) ==
    LET leaves == {c.segs \o <<"actorspec.js">>}
                  \cup {d \o <<"actorspec.json">> : d \in OutputDirs(c)}
    IN  UNION {{SubSeq(l, 1, i) : i \in 0..Len(l)} : l \in leaves}

\* What actorspec.json can be before the run: absent, a directory, the
\* complete output of an earlier run, or other content.
EarlierOutput ==
    JSONStringify(Obj(<< <<"actorspecVersion", Num(1)>>,
                         <<"actor", Obj(<< <<"title", Str("Demo")>> >>)>> >>))
PriorEntries == {NoEntry, Dir, File(EarlierOutput), File(<<"{">>)}
\* What .actor and out can be before the run.
DirEntries == {NoEntry, Dir, File(<<>>)}

InitialFs(c, hasModule, actorE, outE, prior) ==
    [p \in FsPaths(c) |->
        CASE Len(p) <= Len(c.segs) -> Dir
          [] p = c.segs \o <<"actorspec.js">> ->
                IF hasModule THEN File(<<"module">>) ELSE NoEntry
          [] p = c.segs \o <<".actor">> -> actorE
          [] p = c.segs \o <<"out">> -> outE
          [] p = c.segs \o <<"out", "sub">> -> NoEntry
          [] p = c.segs \o <<"actorspec.json">> -> prior
          [] p = c.segs \o <<".actor", "actorspec.json">> ->
                IF actorE = Dir THEN prior ELSE NoEntry
          [] p = c.segs \o <<"out", "actorspec.json">> ->
                IF outE = Dir THEN prior ELSE NoEntry
          [] OTHER -> NoEntry]

(***************************************************************************)
(* Errors and promises                                                     *)
(***************************************************************************)
NoError == [kind |-> "none", text |-> "", paths |-> {}]
ThrownError(kind, text, paths) == [kind |-> kind, text |-> text, paths |-> paths]

NoPromise == [state |-> "none", value |-> Undefined]
NoPath == Rel(<<>>)

(***************************************************************************)
(* State                                                                   *)
(***************************************************************************)
VARIABLES
    cwd,             \* process.cwd()
    module,          \* the config module on disk
    args,            \* the argument of generate: config, outDir, silent
    fs,              \* the filesystem
    fs0,             \* the filesystem when generate was called
    pc,              \* the statement generate is at
    absConfigPath, configPath, configOrInit, promise, resolvedConfig,
    jsonConfig, absOutDirPath, absOutFilePath,   \* the locals of generate
    error,           \* the error generate threw
    stdout,          \* what log wrote
    invoked,         \* calls of the default export
    mkdirCalls,      \* calls of fsp.mkdir
    writeFileCalls   \* calls of fsp.writeFile

inputs == <<cwd, module, args, fs0>>
locals == <<absConfigPath, configPath, configOrInit, promise, resolvedConfig,
            jsonConfig, absOutDirPath, absOutFilePath>>
counters == <<invoked, mkdirCalls, writeFileCalls>>
vars == <<inputs, fs, pc, locals, error, stdout, counters>>

\* const absPath = (filepath) => path.resolve(process.cwd(), filepath)
absPath(filepath) == PathResolve(cwd, filepath)
\* const resolvePath = (filepath) => path.relative(module.path, absPath(filepath))
resolvePath(filepath) == PathRelative(ModulePath, absPath(filepath))
\* const log = silent ? () => {} : console.log
Log(line) == IF args.silent THEN stdout ELSE Append(stdout, line)

Init ==
    /\ cwd \in Cwds
    /\ module \in Modules
    /\ args \in [config : Configs, outDir : OutDirs, silent : BOOLEAN]
    /\ \E actorE \in DirEntries, outE \in DirEntries, prior \in PriorEntries :
          fs = InitialFs(cwd, module.load # "missing", actorE, outE, prior)
    /\ fs0 = fs
    /\ pc = "start"
    /\ absConfigPath = NoPath
    /\ configPath = NoPath
    /\ configOrInit = Undefined
    /\ promise = NoPromise
    /\ resolvedConfig = Undefined
    /\ jsonConfig = <<>>
    /\ absOutDirPath = NoPath
    /\ absOutFilePath = NoPath
    /\ error = NoError
    /\ stdout = <<>>
    /\ invoked = 0
    /\ mkdirCalls = 0
    /\ writeFileCalls = 0

\* generate throws e.
Throw(e) == pc' = "failed" /\ error' = e

\* The export check without the typeof test.
ExportRejectedFalsyOnly(v) == ~Truthy(v)

\* Line 44: !configOrInit || !['function', 'object'].includes(typeof configOrInit)
ExportRejected(v) == ~Truthy(v) \/ TypeOf(v) \notin {"function", "object"}

\* Line 50: !resolvedConfig || typeof configOrInit !== 'object'
ResolvedRejected(resolved, orInit) == ~Truthy(resolved) \/ TypeOf(orInit) # "object"

\* Line 54: !resolvedConfig.actorspecVersion
VersionMissing(resolved) == ~Truthy(GetProp(resolved, "actorspecVersion"))

\* `outDir ? ... : ...` tests a string: the empty string is falsy.
OutDirTruthy(o) == o.given /\ (o.path.abs \/ o.path.segs # <<>>)

\* The .actor detection put before the outDir argument.
OutDirUsedDetectFirst(o, f) ==
    IF ExistsSync(f, absPath(Rel(<<".", ".actor">>))) THEN Rel(<<".", ".actor">>)
    ELSE IF OutDirTruthy(o) THEN o.path
    ELSE Rel(<<".">>)

\* The fallback without the .actor detection.
OutDirUsedNoDetect(o, f) == IF OutDirTruthy(o) THEN o.path ELSE Rel(<<".">>)

\* Line 60: outDir ? outDir : fs.existsSync(absPath('./.actor')) ? './.actor' : '.'
OutDirUsed(o, f) ==
    IF OutDirTruthy(o) THEN o.path
    ELSE IF ExistsSync(f, absPath(Rel(<<".", ".actor">>))) THEN Rel(<<".", ".actor">>)
    ELSE Rel(<<".">>)

\* Lines 36-41: the paths of the config, and the first log line.
Begin ==
    /\ pc = "start"
    /\ absConfigPath' = absPath(args.config)
    /\ configPath' = resolvePath(args.config)
    /\ stdout' = Log(<<"Importing file from", absPath(args.config)>>)
    /\ pc' = "require"
    /\ UNCHANGED <<inputs, fs, configOrInit, promise, resolvedConfig, jsonConfig,
                   absOutDirPath, absOutFilePath, error, counters>>

\* Line 43: require(configPath).default. The loader resolves the specifier
\* against module.path; its own errors pass to the caller as they are.
Require ==
    /\ pc = "require"
    /\ LET target == PathResolve(ModulePath, configPath)
           found == /\ target.segs \in DOMAIN fs
                    /\ fs[target.segs].k = "file"
                    /\ module.load # "missing"
       IN  CASE ~found ->
                  /\ Throw(ThrownError("ImportError", "Cannot find module",
                                       {configPath, Abs(ModulePath.segs \o <<"commands.js">>)}))
                  /\ UNCHANGED configOrInit
             [] found /\ module.load = "throws" ->
                  /\ Throw(ThrownError("ImportError", "thrown by the config module", {}))
                  /\ UNCHANGED configOrInit
             [] OTHER ->
                  /\ configOrInit' = module.default
                  /\ pc' = "checkExport"
                  /\ UNCHANGED error
    /\ UNCHANGED <<inputs, fs, absConfigPath, configPath, promise, resolvedConfig,
                   jsonConfig, absOutDirPath, absOutFilePath, stdout, counters>>

\* Lines 44-48: the type check of the default export.
CheckExport ==
    /\ pc = "checkExport"
    /\ IF ExportRejected(configOrInit)
       THEN /\ Throw(ThrownError("InvalidExportError",
                                 "Failed to import actorspec from path, got instead",
                                 {absConfigPath}))
            /\ UNCHANGED stdout
       ELSE /\ stdout' = Log(<<"Actorspec found! Resolving...">>)
            /\ pc' = "resolve"
            /\ UNCHANGED error
    /\ UNCHANGED <<inputs, fs, locals, counters>>

\* Line 49: typeof configOrInit === 'function' ? await configOrInit() : configOrInit.
\* A factory is called; what it returns is awaited, promise or not.
Resolve ==
    /\ pc = "resolve"
    /\ IF TypeOf(configOrInit) = "function"
       THEN /\ invoked' = invoked + 1
            /\ IF configOrInit.throws /\ ~configOrInit.async
               THEN /\ Throw(ThrownError("FactoryError", "thrown by the factory", {}))
                    /\ UNCHANGED promise
               ELSE /\ promise' =
                          IF configOrInit.async
                          THEN [state |-> "pending", value |-> Undefined]
                          ELSE [state |-> "fulfilled", value |-> configOrInit.ret]
                    /\ pc' = "await"
                    /\ UNCHANGED error
            /\ UNCHANGED resolvedConfig
       ELSE /\ resolvedConfig' = configOrInit
            /\ pc' = "checkResolved"
            /\ UNCHANGED <<promise, error, invoked>>
    /\ UNCHANGED <<inputs, fs, absConfigPath, configPath, configOrInit, jsonConfig,
                   absOutDirPath, absOutFilePath, stdout, mkdirCalls, writeFileCalls>>

\* The promise of an asynchronous factory settles.
Settle ==
    /\ pc = "await"
    /\ promise.state = "pending"
    /\ promise' = IF configOrInit.throws
                  THEN [state |-> "rejected", value |-> Undefined]
                  ELSE [state |-> "fulfilled", value |-> configOrInit.ret]
    /\ UNCHANGED <<inputs, fs, pc, absConfigPath, configPath, configOrInit,
                   resolvedConfig, jsonConfig, absOutDirPath, absOutFilePath,
                   error, stdout, counters>>

\* Line 49, after the await: the settled value is the resolved config; a
\* rejection is thrown on.
Resume ==
    /\ pc = "await"
    /\ promise.state \in {"fulfilled", "rejected"}
    /\ IF promise.state = "rejected"
       THEN /\ Throw(ThrownError("FactoryError", "thrown by the factory", {}))
            /\ UNCHANGED resolvedConfig
       ELSE /\ resolvedConfig' = promise.value
            /\ pc' = "checkResolved"
            /\ UNCHANGED error
    /\ UNCHANGED <<inputs, fs, absConfigPath, configPath, configOrInit, promise,
                   jsonConfig, absOutDirPath, absOutFilePath, stdout, counters>>

\* Lines 50-52: the check of what the export resolved to.
CheckResolved ==
    /\ pc = "checkResolved"
    /\ IF ResolvedRejected(resolvedConfig, configOrInit)
       THEN Throw(ThrownError("UnresolvedConfigError",
                              "Failed to import actorspec from path, the import did not resolve to object, got instead",
                              {absConfigPath}))
       ELSE pc' = "checkVersion" /\ UNCHANGED error
    /\ UNCHANGED <<inputs, fs, locals, stdout, counters>>

\* The version check with the loader-relative path in its message.
CheckVersionRelative ==
    /\ pc = "checkVersion"
    /\ IF VersionMissing(resolvedConfig)
       THEN Throw(ThrownError("MissingVersionError",
                              "Invalid actorspec object imported from path, config.actorspecVersion is missing",
                              {configPath}))
       ELSE pc' = "prepare" /\ UNCHANGED error
    /\ UNCHANGED <<inputs, fs, locals, stdout, counters>>

\* Lines 54-56: the check of actorspecVersion.
CheckVersion ==
    /\ pc = "checkVersion"
    /\ IF VersionMissing(resolvedConfig)
       THEN Throw(ThrownError("MissingVersionError",
                              "Invalid actorspec object imported from path, config.actorspecVersion is missing",
                              {absConfigPath}))
       ELSE pc' = "prepare" /\ UNCHANGED error
    /\ UNCHANGED <<inputs, fs, locals, stdout, counters>>

\* Lines 58-63: the JSON text and the output paths.
Prepare ==
    /\ pc = "prepare"
    /\ jsonConfig' = JSONStringify(resolvedConfig)
    /\ absOutDirPath' = absPath(OutDirUsed(args.outDir, fs))
    /\ absOutFilePath' = PathResolve(absOutDirPath', Rel(<<"actorspec.json">>))
    /\ stdout' = Log(<<"Writing resolved config to file", absOutFilePath'>>)
    /\ pc' = "mkdir"
    /\ UNCHANGED <<inputs, fs, absConfigPath, configPath, configOrInit, promise,
                   resolvedConfig, error, counters>>

\* Line 65: await fsp.mkdir(absOutDirPath, { recursive: true }).
Mkdir ==
    /\ pc = "mkdir"
    /\ mkdirCalls' = mkdirCalls + 1
    /\ LET r == MkdirRecursive(fs, absOutDirPath)
       IN  /\ fs' = r.fs
           /\ IF r.err = "none"
              THEN pc' = "writeFile" /\ UNCHANGED error
              ELSE Throw(ThrownError("FilesystemError", r.err, {absOutDirPath}))
    /\ UNCHANGED <<inputs, locals, stdout, invoked, writeFileCalls>>

\* Line 66: fsp.writeFile(absOutFilePath, jsonConfig, 'utf-8') opens the file,
\* which truncates it.
WriteFileOpen ==
    /\ pc = "writeFile"
    /\ writeFileCalls' = writeFileCalls + 1
    /\ LET r == OpenTruncate(fs, absOutFilePath)
       IN  /\ fs' = r.fs
           /\ IF r.err = "none"
              THEN pc' = (IF jsonConfig = <<>> THEN "finish" ELSE "writing")
                   /\ UNCHANGED error
              ELSE Throw(ThrownError("FilesystemError", r.err, {absOutFilePath}))
    /\ UNCHANGED <<inputs, locals, stdout, invoked, mkdirCalls>>

\* Line 66, on: writeFile writes what is left of the buffer, in as many
\* write calls as the system takes, and the await ends after the last.
WriteChunk ==
    /\ pc = "writing"
    /\ LET written == Len(fs[absOutFilePath.segs].data)
       IN  \E k \in 1..(Len(jsonConfig) - written) :
              /\ fs' = WriteAppend(fs, absOutFilePath,
                                   SubSeq(jsonConfig, written + 1, written + k))
              /\ pc' = IF written + k = Len(jsonConfig) THEN "finish" ELSE "writing"
    /\ UNCHANGED <<inputs, locals, error, stdout, counters>>

\* Line 68: the last log line; generate returns.
Finish ==
    /\ pc = "finish"
    /\ stdout' = Log(<<"Done!">>)
    /\ pc' = "done"
    /\ UNCHANGED <<inputs, fs, locals, error, counters>>

\* The process is terminated in the middle of a run: what is on disk stays,
\* what was in memory is gone.
Kill ==
    /\ pc \notin {"done", "failed", "killed"}
    /\ pc' = "killed"
    /\ absConfigPath' = NoPath
    /\ configPath' = NoPath
    /\ configOrInit' = Undefined
    /\ promise' = NoPromise
    /\ resolvedConfig' = Undefined
    /\ jsonConfig' = <<>>
    /\ absOutDirPath' = NoPath
    /\ absOutFilePath' = NoPath
    /\ UNCHANGED <<inputs, fs, error, stdout, counters>>

Next ==
    \/ Begin
    \/ Require
    \/ CheckExport
    \/ Resolve
    \/ Settle
    \/ Resume
    \/ CheckResolved
    \/ CheckVersion
    \/ Prepare
    \/ Mkdir
    \/ WriteFileOpen
    \/ WriteChunk
    \/ Finish
    \/ Kill

Spec == Init /\ [][Next]_vars

(***************************************************************************)
(* JSON.parse, for the properties that read the file back                  *)
(***************************************************************************)
\* The strings a text can hold.
Strings == {"actorspecVersion", "actor", "title", "Demo", "", "abc"}
NoParse == [ok |-> FALSE]

RECURSIVE SkipWs(_)
SkipWs(toks) ==
    IF toks # <<>> /\ Head(toks) \in Whitespace THEN SkipWs(Tail(toks)) ELSE toks

RECURSIVE ParseValue(_)
RECURSIVE ParseMembers(_, _)
RECURSIVE ParseElements(_, _)

\* After `{` and the members read so far: `}` ends, else `"key" : value`
\* followed by `,` or `}`.
ParseMembers(toks0, acc) ==
    LET toks == SkipWs(toks0)
    IN  IF toks = <<>> THEN NoParse
        ELSE IF Head(toks) = "}" /\ acc = <<>>
        THEN [ok |-> TRUE, val |-> Obj(acc), rest |-> Tail(toks)]
        ELSE IF \E s \in Strings : Quote(s) = Head(toks)
        THEN LET key == CHOOSE s \in Strings : Quote(s) = Head(toks)
                 t1 == SkipWs(Tail(toks))
             IN  IF t1 = <<>> \/ Head(t1) # ":" THEN NoParse
                 ELSE LET r == ParseValue(Tail(t1))
                      IN  IF ~r.ok THEN NoParse
                          ELSE LET t2 == SkipWs(r.rest)
                                   acc2 == Append(acc, <<key, r.val>>)
                               IN  IF t2 = <<>> THEN NoParse
                                   ELSE IF Head(t2) = ","
                                   THEN LET t3 == SkipWs(Tail(t2))
                                        IN  IF t3 = <<>> \/ Head(t3) = "}" THEN NoParse
                                            ELSE ParseMembers(t3, acc2)
                                   ELSE IF Head(t2) = "}"
                                   THEN [ok |-> TRUE, val |-> Obj(acc2), rest |-> Tail(t2)]
                                   ELSE NoParse
        ELSE NoParse

\* After `[` and the elements read so far.
ParseElements(toks0, acc) ==
    LET toks == SkipWs(toks0)
    IN  IF toks = <<>> THEN NoParse
        ELSE IF Head(toks) = "]" /\ acc = <<>>
        THEN [ok |-> TRUE, val |-> Arr(acc, <<>>), rest |-> Tail(toks)]
        ELSE LET r == ParseValue(toks)
             IN  IF ~r.ok THEN NoParse
                 ELSE LET t2 == SkipWs(r.rest)
                          acc2 == Append(acc, r.val)
                      IN  IF t2 = <<>> THEN NoParse
                          ELSE IF Head(t2) = ","
                          THEN LET t3 == SkipWs(Tail(t2))
                               IN  IF t3 = <<>> \/ Head(t3) = "]" THEN NoParse
                                   ELSE ParseElements(t3, acc2)
                          ELSE IF Head(t2) = "]"
                          THEN [ok |-> TRUE, val |-> Arr(acc2, <<>>), rest |-> Tail(t2)]
                          ELSE NoParse

ParseValue(toks0) ==
    LET toks == SkipWs(toks0)
    IN  IF toks = <<>> THEN NoParse
        ELSE LET h == Head(toks)
             IN  CASE h = "{" -> ParseMembers(Tail(toks), <<>>)
                   [] h = "[" -> ParseElements(Tail(toks), <<>>)
                   [] h = "null" -> [ok |-> TRUE, val |-> Null, rest |-> Tail(toks)]
                   [] \E n \in 0..MaxNum : ToString(n) = h ->
                        [ok |-> TRUE,
                         val |-> Num(CHOOSE n \in 0..MaxNum : ToString(n) = h),
                         rest |-> Tail(toks)]
                   [] \E s \in Strings : Quote(s) = h ->
                        [ok |-> TRUE,
                         val |-> Str(CHOOSE s \in Strings : Quote(s) = h),
                         rest |-> Tail(toks)]
                   [] OTHER -> NoParse

\* JSON.parse(text): the value, or a SyntaxError (ok = FALSE) when the text
\* is not one complete JSON value.
JSONParse(text) ==
    LET r == ParseValue(text)
    IN  IF r.ok /\ SkipWs(r.rest) = <<>> THEN [ok |-> TRUE, val |-> r.val] ELSE NoParse

(***************************************************************************)
(* Vocabulary of the properties                                            *)
(***************************************************************************)
\* a is a leading substring of b, for the segment names of the model.
SegPrefix(a, b) == a = b \/ (a = "actorspec.js" /\ b = "actorspec.json")

\* The text of path q contains the text of the absolute path p: the segments
\* of p occur in q behind a "/", the last of them possibly continued.
PathTextContains(q, p) ==
    LET n == Len(p.segs)
    IN  \E i \in 0..(Len(q.segs) - n) :
           /\ i > 0 \/ q.abs
           /\ \A j \in 1..n :
                 IF j < n THEN q.segs[i + j] = p.segs[j]
                 ELSE SegPrefix(p.segs[j], q.segs[i + j])

\* The message of e contains the text of the absolute path p.
MessageContains(e, p) == \E q \in e.paths : PathTextContains(q, p)

\* generate returned or threw.
Ended == pc \in {"done", "failed"}
Loaded == module.load = "ok"
VersionOf(v) == GetProp(v, "actorspecVersion")
\* The export is a plain object (not an array, not callable) with a truthy
\* actorspecVersion.
PlainVersioned(v) == v.t = "object" /\ Truthy(VersionOf(v))
\* The config argument resolved against CWD.
AbsConfig == PathResolve(cwd, args.config)
OutFileIn(dirSegs) == dirSegs \o <<"actorspec.json">>
\* No file stands on the way to (or at) the directory.
PathClear(f, dirSegs) == \A i \in 1..Len(dirSegs) : f[SubSeq(dirSegs, 1, i)].k # "file"
\* The output location could take the file when generate was called: the
\* directory is creatable and actorspec.json is absent or a file.
OutputUsable ==
    /\ PathClear(fs0, absOutDirPath.segs)
    /\ fs0[absOutFilePath.segs].k # "dir"
\* The errors generate throws itself, before the output stage.
ValidationKinds == {"InvalidExportError", "UnresolvedConfigError", "MissingVersionError"}
\* All the failures that come before the output stage.
EarlyKinds == ValidationKinds \cup {"ImportError", "FactoryError"}

\* v survives JSON unchanged: null, finite numbers, strings, and the arrays
\* and plain objects made of such values.
RECURSIVE JSONRepresentable(_)
JSONRepresentable(v) ==
    CASE v.t = "null" -> TRUE
      [] v.t = "string" -> TRUE
      [] v.t = "number" -> v.fin
      [] v.t = "object" ->
            \A i \in 1..Len(v.props) : JSONRepresentable(v.props[i][2])
      [] v.t = "array" ->
            v.props = <<>> /\ \A i \in 1..Len(v.elems) : JSONRepresentable(v.elems[i])
      [] OTHER -> FALSE

\* The example of the spec: { actorspecVersion: 1, actor: { title: "Demo" } }
\* and its text with 2-space indentation.
DemoObject ==
    Obj(<< <<"actorspecVersion", Num(1)>>,
           <<"actor", Obj(<< <<"title", Str("Demo")>> >>)>> >>)
DemoText ==
    << "{", "\n",
       "  ", "\"actorspecVersion\"", ":", " ", "1", ",", "\n",
       "  ", "\"actor\"", ":", " ", "{", "\n",
       "  ", "  ", "\"title\"", ":", " ", "\"Demo\"", "\n",
       "  ", "}", "\n",
       "}" >>

C2_FactoryTransparent ==
    (Loaded /\ module.default.t = "function" /\ ~module.default.throws
       /\ PlainVersioned(module.default.ret) /\ Ended) =>
        /\ error.kind \notin ValidationKinds
        /\ pc = "done" =>
              fs[absOutFilePath.segs] = File(JSONStringify(module.default.ret))

(***************************************************************************)
(* C3                                                                      *)
(***************************************************************************)
\* What the default export resolves to: itself, or what the factory yields.
ResolvesTo(v) == IF v.t = "function" THEN v.ret ELSE v

\* C3: when the export resolves to an object whose actorspecVersion is absent
\* or falsy, generate fails with the missing-version error and the filesystem
\* is as it was.
C3_MissingVersion ==
    (Loaded /\ ~(module.default.t = "function" /\ module.default.throws)
       /\ ResolvesTo(module.default).t = "object"
       /\ ~Truthy(VersionOf(ResolvesTo(module.default))) /\ Ended) =>
        /\ pc = "failed"
        /\ error.kind = "MissingVersionError"
        /\ fs = fs0
        /\ mkdirCalls = 0 /\ writeFileCalls = 0

(***************************************************************************)
(* C4                                                                      *)
(***************************************************************************)
\* C4: when the default export is missing, null, a number or a string, the run
\* never gets past the export check: it fails there with the invalid-export
\* error, the filesystem is untouched at every point, mkdir and writeFile are
\* never called and the export is never invoked.
C4_InvalidExportFirst ==
    (Loaded /\ module.default.t \in {"undefined", "null", "number", "string"}) =>
        /\ pc \in {"start", "require", "checkExport", "failed", "killed"}
        /\ pc = "failed" => error.kind = "InvalidExportError"
        /\ fs = fs0
        /\ mkdirCalls = 0 /\ writeFileCalls = 0 /\ invoked = 0

C4_Witness ==
    /\ pc = "failed"
    /\ Loaded
    /\ module.default = Str("abc")
    /\ error.kind = "InvalidExportError"
    /\ fs = fs0

(***************************************************************************)
(* C5                                                                      *)
(***************************************************************************)
\* The path C5 names: actorspec.json in outDir resolved against CWD.
SuppliedOutFile == Abs(OutFileIn(PathResolve(cwd, args.outDir.path).segs))
DotActor == cwd.segs \o <<".actor">>

\* C5 as stated: whenever an outDir is supplied, the output file path is
\* actorspec.json inside outDir resolved against CWD.
C5_AnyOutDirWins ==
    (args.outDir.given /\ pc \in {"mkdir", "writeFile", "writing", "finish", "done"}) =>
        absOutFilePath = SuppliedOutFile

\* C5 amended: whenever a non-empty outDir is supplied, the output path is
\* actorspec.json inside outDir resolved against CWD, whatever .actor is, and
\* a run that returns has written there; with an outDir other than .actor,
\* .actor and what it holds are as they were.
C5_NonEmptyOutDirWins ==
    (args.outDir.given /\ args.outDir.path # Rel(<<>>)) =>
        /\ pc \in {"mkdir", "writeFile", "writing", "finish", "done"} =>
              absOutFilePath = SuppliedOutFile
        /\ pc = "done" =>
              fs[SuppliedOutFile.segs] = File(JSONStringify(module.default))
        /\ PathResolve(cwd, args.outDir.path).segs # DotActor =>
              /\ fs[DotActor] = fs0[DotActor]
              /\ fs[OutFileIn(DotActor)] = fs0[OutFileIn(DotActor)]

\* outDir is "out", .actor exists, and the file went to out.
C5_Witness ==
    /\ pc = "done"
    /\ args.outDir = OutDir(Rel(<<"out">>))
    /\ fs0[DotActor] = Dir
    /\ fs[cwd.segs \o <<"out", "actorspec.json">>] = File(JSONStringify(module.default))
    /\ fs[OutFileIn(DotActor)] = NoEntry

(***************************************************************************)
(* C6                                                                      *)
(***************************************************************************)
\* C6: a run without outDir that returns has written <CWD>/.actor/actorspec.json
\* when .actor existed at the call and <CWD>/actorspec.json when it did not;
\* nothing else changed, so no .actor was created.
C6_DefaultLocation ==
    (~args.outDir.given /\ pc = "done") =>
        LET dir == IF fs0[DotActor].k # "none" THEN DotActor ELSE cwd.segs
        IN  /\ absOutFilePath = Abs(OutFileIn(dir))
            /\ fs = [fs0 EXCEPT ![OutFileIn(dir)] = File(JSONStringify(module.default))]

C6_Witness ==
    /\ pc = "done"
    /\ ~args.outDir.given
    /\ fs0[DotActor] = Dir
    /\ fs0[OutFileIn(cwd.segs)] = File(EarlierOutput)
    /\ fs[OutFileIn(DotActor)] = File(JSONStringify(module.default))
    /\ fs[OutFileIn(cwd.segs)] = File(EarlierOutput)

C8_ArrayRejected ==
    (Loaded /\ module.default.t = "array" /\ Ended) =>
        pc = "failed" /\ error.kind = "InvalidExportError"

(***************************************************************************)
(* C9                                                                      *)
(***************************************************************************)
\* The run reached the output stage.
ReachedOutput == mkdirCalls > 0
\* Directory creation failed.
MkdirFailed == pc = "failed" /\ error.kind = "FilesystemError" /\ writeFileCalls = 0

C10_NeverPartial ==
    \A d \in OutputDirs(cwd) :
        \/ fs[OutFileIn(d)] = NoEntry
        \/ fs[OutFileIn(d)] = fs0[OutFileIn(d)]
        \/ fs[OutFileIn(d)] = File(JSONStringify(ResolvesTo(module.default)))

====
